---- MODULE Spec2Model ----
(***************************************************************************)
(* CustomDatasetMapper (src/mmovod/data/custom_dataset_mapper.py).         *)
(*                                                                         *)
(* The mapper is a callable object: __init__ fixes its configuration,      *)
(* __call__ turns one dataset record into one sample.  Python objects are  *)
(* modelled by reference: a heap maps addresses to dicts, a dict is a      *)
(* function from its keys to values, `k in d` is k \in DOMAIN d.  Pixel    *)
(* data and coordinates are symbolic: a geometry value records which       *)
(* transform and which image shape it was remapped with.                   *)
(***************************************************************************)
EXTENDS Integers, Sequences, FiniteSets, TLC

VARIABLES
    pc,        \* "new" | "ctor_raised" | "idle" | "returned" | "raised"
    self,      \* <<>> or <<attrs>>: the constructed mapper's attributes
    ctorArgs,  \* <<>> or <<args>>: the arguments __init__ was called with
    rec,       \* <<>> or <<r>>: the caller's record as it was when __call__ began
    fr,        \* <<>> or <<frame>>: heap, locals and outcome of the last __call__
    twin       \* <<>> or <<frame>>: the same call on a mapper with another ann-type setup

vars == <<pc, self, ctorArgs, rec, fr, twin>>

\* Bounds of the exploration.
NumSources == 2
NumClasses == 2
MaxAnnos == 2
TopK == 1

----------------------------------------------------------------------------
\* Python dict operations.

EmptyDict == [x \in {} |-> TRUE]

Has(d, k) == k \in DOMAIN d

Get(d, k, default) == IF k \in DOMAIN d THEN d[k] ELSE default

Put(d, k, v) == [x \in (DOMAIN d) \cup {k} |-> IF x = k THEN v ELSE d[x]]

Pop(d, k) == [x \in (DOMAIN d) \ {k} |-> d[x]]

Opt(c, k, v) == IF c THEN k :> v ELSE EmptyDict

\* sorted(set(xs)) for a list of integers.
RECURSIVE SortedList(_)
SortedList(S) ==
    IF S = {} THEN <<>>
    ELSE LET m == CHOOSE x \in S : \A y \in S : x <= y
         IN  <<m>> \o SortedList(S \ {m})

Range(s) == {s[i] : i \in 1..Len(s)}

\* s[m] for a boolean mask m (tensor indexing by a mask).
RECURSIVE MaskSelect(_, _)
MaskSelect(s, m) ==
    IF s = <<>> THEN <<>>
    ELSE (IF Head(m) THEN <<Head(s)>> ELSE <<>>) \o MaskSelect(Tail(s), Tail(m))

----------------------------------------------------------------------------
\* The heap.  The caller's record lives at address 1, its annotation dicts
\* at 2..n+1; the record's "annotations" value is the list of their addresses.

CallerRef == 1

HeapOf(r) ==
    IF Has(r, "annotations")
    THEN LET n == Len(r["annotations"])
         IN  [a \in 1..(n + 1) |->
                 IF a = 1 THEN Put(r, "annotations", [i \in 1..n |-> i + 1])
                 ELSE r["annotations"][a - 1]]
    ELSE [a \in {1} |-> r]

\* The value a reference denotes (annotation references followed).
Deref(heap, ref) ==
    LET d == heap[ref]
    IN  IF Has(d, "annotations")
        THEN Put(d, "annotations",
                 [i \in 1..Len(d["annotations"]) |-> heap[d["annotations"][i]]])
        ELSE d

\* copy.copy: a new top-level dict that shares the annotation dicts.
ShallowCopy(heap, ref) ==
    LET N == Cardinality(DOMAIN heap)
    IN  [heap |-> [a \in 1..(N + 1) |-> IF a <= N THEN heap[a] ELSE heap[ref]],
         ref  |-> N + 1]

\* copy.deepcopy (line 85): fresh dicts for the record and every annotation.
deepcopy(heap, ref) ==
    LET N == Cardinality(DOMAIN heap)
        d == heap[ref]
        n == IF Has(d, "annotations") THEN Len(d["annotations"]) ELSE 0
        top == IF n = 0 THEN d
               ELSE Put(d, "annotations", [i \in 1..n |-> N + 1 + i])
    IN  [heap |-> [a \in 1..(N + 1 + n) |->
                      IF a <= N THEN heap[a]
                      ELSE IF a = N + 1 THEN top
                      ELSE heap[d["annotations"][a - N - 1]]],
         ref  |-> N + 1]

----------------------------------------------------------------------------
\* Construction.

\* self.augmentations and self.dataset_augs[i]: pipelines, named.
SharedAug == [kind |-> "augmentations", idx |-> 0]

DatasetAug(i) == [kind |-> "dataset_augs", idx |-> i]

AnnTypes == {"box", "image"}

DatasetAnns == [1..NumSources -> AnnTypes]

\* The dataset_ann lists with at most one source that is not 'box'.
OneWeakSource ==
    {[i \in 1..NumSources |-> IF i = k THEN "image" ELSE "box"] : k \in 0..NumSources}

\* from_config, lines 61-77: per-dataset pipelines only for training with
\* use_diff_bs_size, else the empty list.
ConfigDatasetAugs(use_diff_bs_size, is_train) ==
    IF use_diff_bs_size /\ is_train
    THEN [i \in 1..NumSources |-> DatasetAug(i - 1)]
    ELSE <<>>

\* Line 44 without its raise: the flag is stored and construction goes on.
UseTarIgnored(args) == FALSE

\* Lines 44-45: if self.use_tar_dataset: raise NotImplementedError.
UseTarRaises(args) == args.use_tar_dataset

\* __init__, lines 37-46.  The result is the raised exception ("none" when
\* construction completes) and the attributes of the finished object.
MapperInit(args) ==
    LET a1 == ("with_ann_type" :> args.with_ann_type)
              @@ ("dataset_ann" :> args.dataset_ann)
              @@ ("use_diff_bs_size" :> args.use_diff_bs_size)
        a2 == IF args.use_diff_bs_size /\ args.is_train
              THEN a1 @@ ("dataset_augs" :> args.dataset_augs)
              ELSE a1
        a3 == a2 @@ ("is_debug" :> args.is_debug)
                 @@ ("use_tar_dataset" :> args.use_tar_dataset)
        base == ("is_train" :> args.is_train)
                @@ ("augmentations" :> SharedAug)
                @@ ("use_instance_mask" :> args.use_instance_mask)
                @@ ("use_keypoint" :> args.use_keypoint)
                @@ ("recompute_boxes" :> args.recompute_boxes)
                @@ ("proposal_topk" :> args.proposal_topk)
    IN  IF UseTarRaises(args)
        THEN [err |-> "NotImplementedError", obj |-> <<>>]
        ELSE [err |-> "none", obj |-> <<a3 @@ base>>]

----------------------------------------------------------------------------
\* __call__: the frame of one call.  err is the exception that ended the call
\* ("none" while it runs), returned says the call reached a return statement.
\* pipes lists the pipelines applied so far, in order.

NewFrame(heap, dd) ==
    [heap |-> heap, dd |-> dd, err |-> "none", returned |-> FALSE,
     branch |-> "none", ori_image |-> <<>>, sem_seg_gt |-> <<>>,
     not_full_labeled |-> FALSE, pipes |-> <<>>, transforms |-> <<>>,
     image |-> <<>>, image_shape |-> <<>>, all_annos |-> <<>>]

Live(f) == f.err = "none" /\ ~f.returned

Raise(f, e) == [f EXCEPT !.err = e]

\* dataset_dict[k] = v and dataset_dict.pop(k, None) on the call's dict.
SetKey(f, k, v) == [f EXCEPT !.heap[f.dd] = Put(@, k, v)]

DelKey(f, k) == [f EXCEPT !.heap[f.dd] = Pop(@, k)]

\* Symbolic pixel data: where it was read from and the transforms applied.
Pixels(src) == [src |-> src, via |-> <<>>]

\* image.shape[:2]: fixed by the source and by the transforms applied.
Shape(img) == [of |-> img.src, via |-> img.via]

\* utils.check_image_size (line 94): a recorded width/height must match the
\* decoded image ("actual" is the decoded image's own extent); missing ones
\* are filled in.
check_image_size(f) ==
    LET d == f.heap[f.dd]
    IN  IF (Has(d, "width") \/ Has(d, "height"))
           /\ ~(Has(d, "width") /\ Has(d, "height"))
        THEN Raise(f, "KeyError: width")
        ELSE IF Has(d, "width") /\ <<d["width"], d["height"]>> # <<"actual", "actual">>
        THEN Raise(f, "SizeMismatchError")
        ELSE SetKey(SetKey(f, "width", "actual"), "height", "actual")

\* Lines 87-94 with an archive backend in place: records without file_name
\* are read from self.tar_dataset.
ReadImageFromTar(slf, f) ==
    LET d == f.heap[f.dd]
    IN  IF ~Live(f) THEN f
        ELSE IF Has(d, "file_name")
        THEN check_image_size(
                 [f EXCEPT !.branch = "file",
                           !.ori_image = <<Pixels(d["file_name"])>>])
        ELSE check_image_size(
                 [f EXCEPT !.branch = "tar",
                           !.ori_image = <<Pixels(d["tar_index"])>>])

\* Lines 87-94: the image is read from file_name when the record has one;
\* otherwise the else branch looks up self.tar_dataset, an attribute that
\* __init__ never sets.
ReadImage(slf, f) ==
    LET d == f.heap[f.dd]
    IN  IF ~Live(f) THEN f
        ELSE IF Has(d, "file_name")
        THEN check_image_size(
                 [f EXCEPT !.branch = "file",
                           !.ori_image = <<Pixels(d["file_name"])>>])
        ELSE IF ~Has(slf, "tar_dataset")
        THEN Raise([f EXCEPT !.branch = "tar"], "AttributeError: tar_dataset")
        ELSE IF ~Has(d, "tar_index")
        THEN Raise([f EXCEPT !.branch = "tar"], "KeyError: tar_index")
        ELSE check_image_size(
                 [f EXCEPT !.branch = "tar",
                           !.ori_image = <<Pixels(d["tar_index"])>>])

\* Lines 97-101: the mask source key is popped and the mask read.
ReadSemSeg(slf, f) ==
    LET d == f.heap[f.dd]
    IN  IF ~Live(f) THEN f
        ELSE IF Has(d, "sem_seg_file_name")
        THEN [DelKey(f, "sem_seg_file_name") EXCEPT
                 !.sem_seg_gt = <<Pixels(d["sem_seg_file_name"])>>]
        ELSE f

\* Lines 103-104.
DebugSource(slf, f) ==
    IF ~Live(f) THEN f
    ELSE IF slf["is_debug"] THEN SetKey(f, "dataset_source", 0)
    ELSE f

\* Lines 106-108.  dataset_ann is indexed from 0 in the code, from 1 here.
NotFullLabeled(slf, f) ==
    LET d == f.heap[f.dd]
    IN  IF ~Live(f) THEN f
        ELSE [f EXCEPT !.not_full_labeled =
                 Has(d, "dataset_source") /\ slf["with_ann_type"]
                 /\ slf["dataset_ann"][d["dataset_source"] + 1] # "box"]

\* The shared pipeline whatever the configuration.
AlwaysShared(slf, d) == [err |-> "none", aug |-> slf["augmentations"]]

\* Lines 111-115: which pipeline the call applies.
SelectAugmentations(slf, d) ==
    IF slf["use_diff_bs_size"] /\ slf["is_train"]
    THEN IF ~Has(d, "dataset_source")
         THEN [err |-> "KeyError: dataset_source", aug |-> slf["augmentations"]]
         ELSE [err |-> "none", aug |-> slf["dataset_augs"][d["dataset_source"] + 1]]
    ELSE [err |-> "none", aug |-> slf["augmentations"]]

\* Lines 110-116: one application of the selected pipeline to the image and
\* the mask.  flip is what the pipeline samples; app numbers the application.
ApplyAugmentations(slf, f, flip) ==
    LET sel == SelectAugmentations(slf, f.heap[f.dd])
        t == [pipe |-> sel.aug, hflip |-> flip, app |-> Len(f.pipes) + 1]
    IN  IF ~Live(f) THEN f
        ELSE IF sel.err # "none" THEN Raise(f, sel.err)
        ELSE [f EXCEPT
                 !.pipes = Append(@, sel.aug),
                 !.transforms = <<t>>,
                 !.image = <<[f.ori_image[1] EXCEPT !.via = <<t>>]>>,
                 !.sem_seg_gt = IF @ = <<>> THEN <<>>
                                ELSE <<[@[1] EXCEPT !.via = <<t>>]>>]

\* Lines 118-123 for a given image_shape.
AssembleWith(f, shape) ==
    LET f1 == SetKey([f EXCEPT !.image_shape = <<shape>>], "image", f.image[1])
    IN  IF f.sem_seg_gt # <<>> THEN SetKey(f1, "sem_seg", f.sem_seg_gt[1]) ELSE f1

\* Lines 118-123 with the shape of the image as it was before augmentation.
AssembleImageOriShape(slf, f) ==
    IF ~Live(f) THEN f ELSE AssembleWith(f, Shape(f.ori_image[1]))

\* Lines 118-123: image_shape = image.shape[:2] of the augmented image.
AssembleImage(slf, f) ==
    IF ~Live(f) THEN f ELSE AssembleWith(f, Shape(f.image[1]))

\* A geometry (box, mask, keypoints) remapped through a transform and
\* clipped to an image shape.
Remap(g, transforms, image_shape) ==
    [g EXCEPT !.via = <<transforms>>, !.clip = <<image_shape>>]

\* utils.transform_proposals (lines 127-131).
TransformProposals(slf, f) ==
    LET d == f.heap[f.dd]
        boxes == Remap(d["proposal_boxes"], f.transforms[1], f.image_shape[1])
        f1 == DelKey(DelKey(DelKey(f, "proposal_boxes"),
                  "proposal_objectness_logits"), "proposal_bbox_mode")
    IN  IF ~Live(f) THEN f
        ELSE IF slf["proposal_topk"] # <<>> /\ Has(d, "proposal_boxes")
        THEN SetKey(f1, "proposals",
                    [proposal_boxes |-> boxes,
                     objectness_logits |-> d["proposal_objectness_logits"],
                     topk |-> slf["proposal_topk"][1]])
        ELSE f

\* Lines 133-137 without the two pops.
InferenceReturnKeep(slf, f) ==
    IF ~Live(f) THEN f
    ELSE IF ~slf["is_train"] THEN [f EXCEPT !.returned = TRUE]
    ELSE f

\* Lines 133-137.
InferenceReturn(slf, f) ==
    IF ~Live(f) THEN f
    ELSE IF ~slf["is_train"]
    THEN [DelKey(DelKey(f, "annotations"), "sem_seg_file_name")
             EXCEPT !.returned = TRUE]
    ELSE f

----------------------------------------------------------------------------
\* Training mode: annotations to instances.

\* utils.transform_instance_annotations (lines 149-152): the annotation dict
\* is rewritten in place and returned.
transform_instance_annotations(obj, transforms, image_shape) ==
    LET o1 == Put(Put(obj, "bbox", Remap(obj["bbox"], transforms, image_shape)),
                  "bbox_mode", "XYXY_ABS")
        o2 == IF Has(o1, "segmentation")
              THEN Put(o1, "segmentation",
                       Remap(o1["segmentation"], transforms, image_shape))
              ELSE o1
    IN  IF Has(o2, "keypoints")
        THEN Put(o2, "keypoints", Remap(o2["keypoints"], transforms, image_shape))
        ELSE o2

\* Lines 139-154: the pops on every annotation, the remap of every
\* annotation, and dataset_dict.pop("annotations").
RemapAnnotations(slf, f) ==
    LET d == f.heap[f.dd]
        refs == d["annotations"]
        stripped(a) ==
            LET x1 == IF ~slf["use_instance_mask"]
                      THEN Pop(f.heap[a], "segmentation") ELSE f.heap[a]
            IN  IF ~slf["use_keypoint"] THEN Pop(x1, "keypoints") ELSE x1
        heap1 == [a \in DOMAIN f.heap |->
                     IF a \in Range(refs)
                     THEN transform_instance_annotations(
                              stripped(a), f.transforms[1], f.image_shape[1])
                     ELSE IF a = f.dd THEN Pop(d, "annotations")
                     ELSE f.heap[a]]
    IN  [f EXCEPT !.heap = heap1,
                  !.all_annos = [i \in 1..Len(refs) |->
                                    <<heap1[refs[i]],
                                      Get(heap1[refs[i]], "iscrowd", 0)>>]]

\* Line 155 without its test: every remapped annotation is kept.
KeepAll(all_annos) == [i \in 1..Len(all_annos) |-> all_annos[i][1]]

\* Line 155: annos = [ann[0] for ann in all_annos if ann[1] == 0].
NonCrowd(all_annos) ==
    MaskSelect([i \in 1..Len(all_annos) |-> all_annos[i][1]],
               [i \in 1..Len(all_annos) |-> all_annos[i][2] = 0])

\* utils.annotations_to_instances (lines 156-158).  Mask and keypoint fields
\* exist only when the first annotation has them; reading a field that a
\* later annotation lacks is a KeyError.
annotations_to_instances(annos, image_shape) ==
    LET n == Len(annos)
        base == ("image_size" :> image_shape)
                @@ ("gt_boxes" :> [i \in 1..n |-> annos[i]["bbox"]])
                @@ ("gt_classes" :> [i \in 1..n |-> annos[i]["category_id"]])
        withMasks == n > 0 /\ Has(annos[1], "segmentation")
        withKpts == n > 0 /\ Has(annos[1], "keypoints")
        m == IF withMasks
             THEN base @@ ("gt_masks" :> [i \in 1..n |-> annos[i]["segmentation"]])
             ELSE base
        k == IF withKpts
             THEN m @@ ("gt_keypoints" :>
                        [i \in 1..n |-> Get(annos[i], "keypoints", <<>>)])
             ELSE m
    IN  IF withMasks /\ \E i \in 1..n : ~Has(annos[i], "segmentation")
        THEN [err |-> "KeyError: segmentation", val |-> base]
        ELSE [err |-> "none", val |-> k]

\* gt_masks.get_bounding_boxes(): the tight box of each mask.
get_bounding_boxes(masks) ==
    [i \in 1..Len(masks) |-> [masks[i] EXCEPT !.kind = "box", !.tight = TRUE]]

\* utils.filter_empty_instances (line 163): an instance stays when its box
\* is non-empty and, if there are masks, its mask is non-empty.
filter_empty_instances(inst) ==
    LET n == Len(inst["gt_boxes"])
        keep == [i \in 1..n |->
                    ~inst["gt_boxes"][i].empty
                    /\ (Has(inst, "gt_masks") => ~inst["gt_masks"][i].empty)]
    IN  [k \in DOMAIN inst |->
            IF k = "image_size" THEN inst[k] ELSE MaskSelect(inst[k], keep)]

\* Lines 156-163 for the annotations kept as supervision.
InstancesFrom(slf, f, annos) ==
    LET made == annotations_to_instances(annos, f.image_shape[1])
        inst == made.val
    IN  IF made.err # "none" THEN Raise(f, made.err)
        ELSE IF slf["recompute_boxes"]
        THEN IF ~Has(inst, "gt_masks") THEN Raise(f, "AttributeError: gt_masks")
             ELSE SetKey(f, "instances",
                      filter_empty_instances(
                          Put(inst, "gt_boxes", get_bounding_boxes(inst["gt_masks"]))))
        ELSE SetKey(f, "instances", filter_empty_instances(inst))

\* Lines 139-163 of a mapper that keeps no supervision from a record whose
\* source is not fully labelled.
TransformAnnotationsPartial(slf, f) ==
    IF ~Live(f) \/ ~Has(f.heap[f.dd], "annotations") THEN f
    ELSE LET f1 == RemapAnnotations(slf, f)
         IN  InstancesFrom(slf, f1,
                 IF f1.not_full_labeled THEN <<>> ELSE NonCrowd(f1.all_annos))

\* Lines 139-163.
TransformAnnotations(slf, f) ==
    IF ~Live(f) \/ ~Has(f.heap[f.dd], "annotations") THEN f
    ELSE LET f1 == RemapAnnotations(slf, f)
         IN  InstancesFrom(slf, f1, NonCrowd(f1.all_annos))

\* Lines 164-168 reading the first source's label instead of the record's.
AttachAnnTypeFirst(slf, f) ==
    LET d == f.heap[f.dd]
        f1 == SetKey(f, "pos_category_ids", Get(d, "pos_category_ids", <<>>))
    IN  IF ~Live(f) \/ ~slf["with_ann_type"] THEN f
        ELSE SetKey(f1, "ann_type", slf["dataset_ann"][1])

\* Lines 164-168.
AttachAnnType(slf, f) ==
    LET d == f.heap[f.dd]
        f1 == SetKey(f, "pos_category_ids", Get(d, "pos_category_ids", <<>>))
    IN  IF ~Live(f) \/ ~slf["with_ann_type"] THEN f
        ELSE IF ~Has(d, "dataset_source") THEN Raise(f1, "KeyError: dataset_source")
        ELSE SetKey(f1, "ann_type", slf["dataset_ann"][d["dataset_source"] + 1])

\* Lines 169-173.
DebugLabels(slf, f) ==
    LET d == f.heap[f.dd]
    IN  IF ~Live(f) THEN f
        ELSE IF slf["is_debug"]
                /\ (~Has(d, "pos_category_ids") \/ d["pos_category_ids"] = <<>>)
        THEN IF ~Has(d, "instances") THEN Raise(f, "KeyError: instances")
             ELSE SetKey(f, "pos_category_ids",
                         SortedList(Range(d["instances"]["gt_classes"])))
        ELSE f

\* Line 174.
ReturnSample(f) == IF Live(f) THEN [f EXCEPT !.returned = TRUE] ELSE f

\* __call__ (lines 81-174) on the record at CallerRef of heap0; flip is what
\* the augmentation pipeline samples.
RunCall(slf, heap0, flip) ==
    LET c  == deepcopy(heap0, CallerRef)
        f0 == NewFrame(c.heap, c.ref)
        f1 == ReadSemSeg(slf, ReadImage(slf, f0))
        f2 == NotFullLabeled(slf, DebugSource(slf, f1))
        f3 == AssembleImage(slf, ApplyAugmentations(slf, f2, flip))
        f4 == InferenceReturn(slf, TransformProposals(slf, f3))
        f5 == TransformAnnotations(slf, f4)
    IN  ReturnSample(DebugLabels(slf, AttachAnnType(slf, f5)))

\* The sample a finished call returned, and the caller's record after it.
Sample(f) == Deref(f.heap, f.dd)

CallerRecord(f) == Deref(f.heap, CallerRef)

----------------------------------------------------------------------------
\* Inputs: constructor arguments and dataset records.

Flags(trains, annTypes, anns, diffs, debugs, tars, topks, modes) ==
    {[is_train |-> t, with_ann_type |-> w, dataset_ann |-> da,
      use_diff_bs_size |-> u, dataset_augs |-> ConfigDatasetAugs(u, t),
      is_debug |-> g, use_tar_dataset |-> x, proposal_topk |-> k,
      use_instance_mask |-> m.mask, use_keypoint |-> m.kpt,
      recompute_boxes |-> m.recompute] :
        t \in trains, w \in annTypes, da \in anns, u \in diffs,
        g \in debugs, x \in tars, k \in topks, m \in modes}

\* The base class's use_instance_mask, use_keypoint and recompute_boxes
\* (recompute_boxes is only accepted together with use_instance_mask).
PlainMode == [mask |-> FALSE, kpt |-> FALSE, recompute |-> FALSE]

FullMode == [mask |-> TRUE, kpt |-> TRUE, recompute |-> TRUE]

MaskMode == [mask |-> TRUE, kpt |-> FALSE, recompute |-> FALSE]

Geom(kind, i, empty) ==
    [kind |-> kind, id |-> i, empty |-> empty, via |-> <<>>, clip |-> <<>>,
     tight |-> FALSE]

\* Annotation i of a record.  Its box, mask and keypoints are geometry i of
\* the image; iscrowd -1 stands for a dict without the key.
Anno(i, t, seg, kpt) ==
    ("bbox" :> Geom("box", i, t.boxEmpty))
    @@ ("bbox_mode" :> "XYWH_ABS")
    @@ ("category_id" :> t.cat)
    @@ Opt(t.iscrowd # -1, "iscrowd", t.iscrowd)
    @@ Opt(seg, "segmentation", Geom("mask", i, t.maskEmpty))
    @@ Opt(kpt, "keypoints", Geom("keypoints", i, FALSE))

AnnoShapes(crowds, cats, boxEmpties, maskEmpties) ==
    [iscrowd : crowds, cat : cats, boxEmpty : boxEmpties, maskEmpty : maskEmpties]

\* The annotation list of the shapes ts; either every annotation of a
\* record has a mask and keypoints or none has.
AnnoList(ts, seg) == [i \in 1..Len(ts) |-> Anno(i, ts[i], seg, seg)]

\* The lists of up to n shapes.
ShapeLists(n, shapes) == UNION {[1..len -> shapes] : len \in 0..n}

\* A record with the given optional keys.  src is "file", "sized" (file plus
\* a matching recorded size), "missized" (file plus a wrong recorded size)
\* or "tar"; ds -1 stands for a record without dataset_source; pos and annos
\* are <<>> (key absent) or <<value>>.
Record(src, semseg, ds, pos, props, annos) ==
    Opt(src # "tar", "file_name", "img.jpg")
    @@ Opt(src = "tar", "tar_index", "tar:0")
    @@ Opt(src \in {"sized", "missized"}, "width",
           IF src = "sized" THEN "actual" ELSE "other")
    @@ Opt(src \in {"sized", "missized"}, "height", "actual")
    @@ Opt(semseg, "sem_seg_file_name", "seg.png")
    @@ Opt(ds # -1, "dataset_source", ds)
    @@ Opt(pos # <<>>, "pos_category_ids", pos[1])
    @@ Opt(props, "proposal_boxes", Geom("proposals", 0, FALSE))
    @@ Opt(props, "proposal_objectness_logits", "logits")
    @@ Opt(props, "proposal_bbox_mode", "XYXY_ABS")
    @@ Opt(annos # <<>>, "annotations", annos[1])

Sources == -1..(NumSources - 1)

Classes == 0..(NumClasses - 1)

----------------------------------------------------------------------------
\* Actions.

\* CustomDatasetMapper(**args).
Construct(args) ==
    /\ pc = "new"
    /\ LET m == MapperInit(args)
       IN  /\ pc' = IF m.err = "none" THEN "idle" ELSE "ctor_raised"
           /\ self' = m.obj
    /\ ctorArgs' = <<args>>
    /\ UNCHANGED <<rec, fr, twin>>

\* mapper(r): one call, to its return or its exception.
Call(r, flip) ==
    /\ pc = "idle"
    /\ self # <<>>
    /\ LET f == RunCall(self[1], HeapOf(r), flip)
       IN  /\ fr' = <<f>>
           /\ pc' = IF f.returned THEN "returned" ELSE "raised"
    /\ rec' = <<r>>
    /\ twin' = <<>>
    /\ UNCHANGED <<self, ctorArgs>>

\* The mapper with another annotation-type configuration, all else equal.
TwinOf(slf, w, da) == Put(Put(slf, "with_ann_type", w), "dataset_ann", da)

\* mapper(r) and, on the same record with the same sampled transform, the
\* call of a mapper that differs only in with_ann_type and dataset_ann.
CallPair(r, flip, w, da) ==
    /\ pc = "idle"
    /\ self # <<>>
    /\ LET f == RunCall(self[1], HeapOf(r), flip)
       IN  /\ fr' = <<f>>
           /\ pc' = IF f.returned THEN "returned" ELSE "raised"
    /\ rec' = <<r>>
    /\ twin' = <<RunCall(TwinOf(self[1], w, da), HeapOf(r), flip)>>
    /\ UNCHANGED <<self, ctorArgs>>

\* The caller is done with the outcome; the mapper is ready for the next record.
Finish ==
    /\ pc \in {"returned", "raised"}
    /\ pc' = "idle"
    /\ rec' = <<>>
    /\ fr' = <<>>
    /\ twin' = <<>>
    /\ UNCHANGED <<self, ctorArgs>>

Init ==
    /\ pc = "new"
    /\ self = <<>>
    /\ ctorArgs = <<>>
    /\ rec = <<>>
    /\ fr = <<>>
    /\ twin = <<>>

\* Spec: every flag of the mapper against every optional key of the record.
\* The records have no annotations key, an empty list, one annotation (crowd
\* or not), or a crowd annotation followed by a non-crowd one.
CtorArgs ==
    Flags(BOOLEAN, BOOLEAN, OneWeakSource, BOOLEAN, BOOLEAN, BOOLEAN,
          {<<>>, <<TopK>>}, {PlainMode, FullMode})

KeyShape(crowd) == [iscrowd |-> crowd, cat |-> 0, boxEmpty |-> FALSE, maskEmpty |-> FALSE]

KeyAnnos ==
    {<<>>,
     <<(<<>>)>>,
     <<(<<Anno(1, KeyShape(0), TRUE, TRUE)>>)>>,
     <<(<<Anno(1, KeyShape(1), TRUE, TRUE)>>)>>,
     <<(<<Anno(1, KeyShape(1), TRUE, TRUE), Anno(2, KeyShape(0), TRUE, TRUE)>>)>>}

ImageSources == {"file", "sized", "missized", "tar"}

PosLists == {<<>>, <<(<<>>)>>, <<(<<0>>)>>}

Next ==
    \/ pc = "new" /\ \E args \in CtorArgs : Construct(args)
    \/ pc = "idle" /\ \E src \in ImageSources, semseg \in BOOLEAN, ds \in Sources,
          pos \in PosLists, props \in BOOLEAN, annos \in KeyAnnos,
          flip \in BOOLEAN :
           Call(Record(src, semseg, ds, pos, props, annos), flip)
    \/ Finish

Spec == Init /\ [][Next]_vars

\* SpecAnnos: training calls on records with annotation lists of up to
\* MaxAnnos annotations of every shape: crowd, non-crowd or without iscrowd,
\* of every class, with an empty or a non-empty box and mask.
AnnoCtorArgs ==
    Flags({TRUE}, {FALSE}, {[i \in 1..NumSources |-> "box"]}, {FALSE}, {FALSE},
          {FALSE}, {<<>>}, {PlainMode, MaskMode, FullMode})

\* With masks, an annotation has an empty box, an empty mask or neither.
MaskedShapes ==
    {t \in AnnoShapes({-1, 0, 1}, Classes, BOOLEAN, BOOLEAN) :
        ~(t.boxEmpty /\ t.maskEmpty)}

BoxShapes == AnnoShapes({-1, 0, 1}, Classes, BOOLEAN, {FALSE})

NextAnnos ==
    \/ pc = "new" /\ \E args \in AnnoCtorArgs : Construct(args)
    \/ pc = "idle" /\ \E seg \in BOOLEAN, flip \in BOOLEAN :
          \E ts \in ShapeLists(MaxAnnos, IF seg THEN MaskedShapes ELSE BoxShapes) :
           Call(Record("file", FALSE, -1, <<>>, FALSE, <<AnnoList(ts, seg)>>), flip)
    \/ Finish

SpecAnnos == Init /\ [][NextAnnos]_vars

\* SpecPair: every training call is made twice, on the mapper and on a
\* mapper that differs from it in with_ann_type and dataset_ann only.
PairCtorArgs ==
    Flags({TRUE}, BOOLEAN, DatasetAnns, {FALSE}, BOOLEAN, {FALSE}, {<<>>},
          {PlainMode, FullMode})

PairShapes == AnnoShapes({0, 1}, {0}, {FALSE}, {FALSE})

PairAnnos ==
    {<<>>} \cup {<<AnnoList(ts, TRUE)>> : ts \in ShapeLists(MaxAnnos, PairShapes)}

NextPair ==
    \/ pc = "new" /\ \E args \in PairCtorArgs : Construct(args)
    \/ pc = "idle" /\ \E ds \in Sources, annos \in PairAnnos, flip \in BOOLEAN,
          w \in BOOLEAN, da \in DatasetAnns :
           CallPair(Record("file", FALSE, ds, <<>>, FALSE, annos), flip, w, da)
    \/ Finish

SpecPair == Init /\ [][NextPair]_vars

----------------------------------------------------------------------------
\* Properties.  Called: a call has ended and its outcome is in fr.

Called == pc \in {"returned", "raised"}

\* The record's image can be loaded: it names a file and any recorded size
\* is the decoded image's.
Loadable(r) ==
    /\ Has(r, "file_name")
    /\ Has(r, "width") => (r["width"] = "actual" /\ r["height"] = "actual")

\* C1: after a call, returned or raised, the caller's record is what it was
\* before the call: same keys, same annotations list, same fields in every
\* annotation, same sem_seg_file_name, dataset_source and pos_category_ids.
C1_CallerRecordUnchanged ==
    Called => /\ CallerRecord(fr[1]) = rec[1]
              /\ fr[1].dd # CallerRef

\* C1 witness: a training call returned after popping sem_seg_file_name and
\* annotations, rewriting an annotation and writing dataset_source, all of
\* which the caller's record still holds in their original form.
C1_Witness ==
    /\ pc = "returned"
    /\ self[1]["is_train"] /\ self[1]["is_debug"] /\ self[1]["with_ann_type"]
    /\ Has(rec[1], "sem_seg_file_name") /\ Has(rec[1], "annotations")
    /\ Len(rec[1]["annotations"]) = 2
    /\ Has(rec[1], "dataset_source") /\ rec[1]["dataset_source"] = 1
    /\ ~Has(rec[1], "pos_category_ids")
    /\ Has(Sample(fr[1]), "instances")
    /\ ~Has(Sample(fr[1]), "sem_seg_file_name")
    /\ Sample(fr[1])["dataset_source"] = 0
    /\ fr[1].all_annos[1][1]["bbox"].via # <<>>

\* C2: a sample returned in inference mode has none of the keys instances,
\* annotations, sem_seg_file_name.
C2_InferenceStripsAnnotations ==
    (pc = "returned" /\ ~self[1]["is_train"]) =>
        DOMAIN Sample(fr[1]) \cap {"instances", "annotations", "sem_seg_file_name"} = {}

\* C2 witness: an inference call returned for a record that had annotations
\* and a sem_seg_file_name, with proposals remapped and debug on.
C2_Witness ==
    /\ pc = "returned" /\ ~self[1]["is_train"]
    /\ self[1]["is_debug"] /\ self[1]["with_ann_type"] /\ self[1]["use_diff_bs_size"]
    /\ self[1]["proposal_topk"] # <<>>
    /\ Has(rec[1], "annotations") /\ rec[1]["annotations"] # <<>>
    /\ Has(rec[1], "sem_seg_file_name")
    /\ Has(Sample(fr[1]), "image")

\* The dataset_source the call works with: 0 under is_debug, else the record's.
SourceUsed == IF self[1]["is_debug"] THEN 0 ELSE rec[1]["dataset_source"]

\* C4: a call that applies a pipeline applies dataset_augs[dataset_source]
\* when use_diff_bs_size is set and the mapper trains, and the shared
\* pipeline in every other case; it applies no second pipeline.
C4_PipelineSelection ==
    (Called /\ fr[1].pipes # <<>>) =>
        /\ Len(fr[1].pipes) = 1
        /\ IF ctorArgs[1].use_diff_bs_size /\ ctorArgs[1].is_train
           THEN /\ self[1]["is_debug"] \/ Has(rec[1], "dataset_source")
                /\ fr[1].pipes[1] = ctorArgs[1].dataset_augs[SourceUsed + 1]
                /\ fr[1].pipes[1] # SharedAug
           ELSE fr[1].pipes[1] = SharedAug

\* C4 witness: a training call with use_diff_bs_size on a record of source 1
\* returned, having applied the second per-dataset pipeline.
C4_Witness ==
    /\ pc = "returned"
    /\ self[1]["use_diff_bs_size"] /\ self[1]["is_train"] /\ ~self[1]["is_debug"]
    /\ rec[1]["dataset_source"] = 1
    /\ fr[1].pipes = <<DatasetAug(1)>>

\* The premise of C5: training, with_ann_type on, is_debug off, a loadable record.
C5_Case ==
    /\ Called
    /\ self[1]["is_train"] /\ self[1]["with_ann_type"] /\ ~self[1]["is_debug"]
    /\ Loadable(rec[1])

\* What C5 says of the returned sample.
C5_Labels ==
    /\ Sample(fr[1])["ann_type"]
           = ctorArgs[1].dataset_ann[rec[1]["dataset_source"] + 1]
    /\ Sample(fr[1])["pos_category_ids"] = Get(rec[1], "pos_category_ids", <<>>)

C6_AsClaimed ==
    (/\ Called /\ self[1]["is_train"] /\ self[1]["is_debug"]
     /\ Loadable(rec[1])
     /\ Get(rec[1], "pos_category_ids", <<>>) = <<>>)
    => /\ pc = "returned"
       /\ Sample(fr[1])["dataset_source"] = 0
       /\ Sample(fr[1])["pos_category_ids"]
              = IF Has(Sample(fr[1]), "instances")
                THEN SortedList(Range(Sample(fr[1])["instances"]["gt_classes"]))
                ELSE <<>>

\* C8: after a construction with use_tar_dataset set, whatever the other
\* arguments, there is no mapper object and no call has been made.
C8_TarConstructionFails ==
    (ctorArgs # <<>> /\ ctorArgs[1].use_tar_dataset) =>
        (pc = "ctor_raised" /\ self = <<>> /\ fr = <<>> /\ rec = <<>>)

\* C8 witness: a construction for training with per-dataset pipelines raised.
C8_Witness ==
    /\ pc = "ctor_raised"
    /\ ctorArgs[1].use_tar_dataset
    /\ ctorArgs[1].is_train /\ ctorArgs[1].use_diff_bs_size

\* C9 as claimed: no call enters the archive-backed branch; every record,
\* with or without file_name, is resolved through the file-path branch.
C9_AsClaimed == Called => fr[1].branch = "file"

\* C9 amended: a call enters the archive-backed branch exactly when the
\* record has no file_name; such a call ends there with an AttributeError
\* (self.tar_dataset is never set), having read no image; every call that
\* returns a sample resolved its image through the file-path branch.
C9_TarBranchOnlyFails ==
    Called =>
        /\ fr[1].branch = "tar" <=> ~Has(rec[1], "file_name")
        /\ fr[1].branch = "file" <=> Has(rec[1], "file_name")
        /\ fr[1].branch = "tar" =>
               /\ pc = "raised"
               /\ fr[1].err = "AttributeError: tar_dataset"
               /\ fr[1].ori_image = <<>>
        /\ pc = "returned" => fr[1].branch = "file"

\* C9 witness: a call on a record with tar_index and no file_name raised in
\* the archive-backed branch.
C9_Witness ==
    /\ pc = "raised"
    /\ Has(rec[1], "tar_index") /\ ~Has(rec[1], "file_name")
    /\ fr[1].branch = "tar"

\* The geometries of a remapped annotation.
GeomsOf(anno) ==
    {anno[k] : k \in DOMAIN anno \cap {"bbox", "segmentation", "keypoints"}}

\* C10: a call applies a pipeline at most once; the transform that remaps
\* every annotation, crowd or not, and the proposals is the one that
\* application returned and that produced the output image and mask, and
\* the shape they are clipped to is the output image's.
C10_OneTransform ==
    Called =>
        /\ Len(fr[1].pipes) <= 1
        /\ Has(fr[1].heap[fr[1].dd], "image") =>
            LET out == fr[1].heap[fr[1].dd]
                t == out["image"].via
                shape == Shape(out["image"])
            IN  /\ Len(t) = 1 /\ t[1].app = 1 /\ Len(fr[1].pipes) = 1
                /\ t[1].pipe = fr[1].pipes[1]
                /\ Has(out, "sem_seg") => out["sem_seg"].via = t
                /\ \A i \in 1..Len(fr[1].all_annos) :
                       \A g \in GeomsOf(fr[1].all_annos[i][1]) :
                           g.via = t /\ g.clip = <<shape>>
                /\ Has(out, "proposals") =>
                       /\ out["proposals"].proposal_boxes.via = t
                       /\ out["proposals"].proposal_boxes.clip = <<shape>>
                /\ Has(out, "instances") =>
                       out["instances"]["image_size"] = shape

\* C10 witness: a training call returned having remapped a crowd and a
\* non-crowd annotation, the proposals and the mask with a flipping transform.
C10_Witness ==
    /\ pc = "returned" /\ self[1]["is_train"]
    /\ Len(fr[1].all_annos) = 2
    /\ fr[1].all_annos[1][2] = 1 /\ fr[1].all_annos[2][2] = 0
    /\ fr[1].transforms[1].hflip
    /\ Has(Sample(fr[1]), "proposals") /\ Has(Sample(fr[1]), "sem_seg")
    /\ Len(Sample(fr[1])["instances"]["gt_boxes"]) = 1


\* Whether an annotation of the input counts as crowd (line 152: a missing
\* iscrowd is 0).
IsCrowd(anno) == Get(anno, "iscrowd", 0) # 0

\* Whether the empty-instance filter can remove the instance of an annotation.
Degenerate(anno) ==
    anno["bbox"].empty \/ (Has(anno, "segmentation") /\ anno["segmentation"].empty)

\* C3: in the instance collection of a training call on a record with an
\* annotations list, the entries come from non-crowd annotations only, one
\* per annotation and in input order, with the annotation's class; a
\* non-crowd annotation without an entry is one the empty-instance filter
\* removes; every annotation, crowd or not, was remapped.
C3_CrowdDropped ==
    (pc = "returned" /\ self[1]["is_train"] /\ Has(rec[1], "annotations")) =>
        LET annos == rec[1]["annotations"]
            inst == Sample(fr[1])["instances"]
            src == [k \in 1..Len(inst["gt_boxes"]) |-> inst["gt_boxes"][k].id]
        IN  /\ \A k \in 1..Len(src) :
                   /\ src[k] \in 1..Len(annos)
                   /\ ~IsCrowd(annos[src[k]])
                   /\ inst["gt_classes"][k] = annos[src[k]]["category_id"]
                   /\ k > 1 => src[k - 1] < src[k]
            /\ Len(inst["gt_classes"]) = Len(src)
            /\ \A i \in 1..Len(annos) :
                   (~IsCrowd(annos[i]) /\ i \notin Range(src)) => Degenerate(annos[i])
            /\ Len(fr[1].all_annos) = Len(annos)
            /\ \A i \in 1..Len(annos) :
                   /\ fr[1].all_annos[i][1]["bbox"].id = i
                   /\ fr[1].all_annos[i][1]["bbox"].via = fr[1].transforms
                   /\ fr[1].all_annos[i][2] = Get(annos[i], "iscrowd", 0)

\* C3 witness: a call returned one instance for a record whose first
\* annotation is crowd and whose second has no iscrowd field.
C3_Witness ==
    /\ pc = "returned" /\ self[1]["is_train"] /\ Has(rec[1], "annotations")
    /\ Len(rec[1]["annotations"]) = 2
    /\ Get(rec[1]["annotations"][1], "iscrowd", 0) = 1
    /\ ~Has(rec[1]["annotations"][2], "iscrowd")
    /\ Len(Sample(fr[1])["instances"]["gt_boxes"]) = 1
    /\ Sample(fr[1])["instances"]["gt_boxes"][1].id = 2

\* C7: when a training call and the call of a mapper that differs only in
\* with_ann_type and dataset_ann both return, on the same record and with the
\* same sampled transform, the two samples have the same instances.
C7_InstancesIgnoreAnnType ==
    (pc = "returned" /\ twin # <<>> /\ twin[1].returned) =>
        /\ Has(Sample(fr[1]), "instances") <=> Has(Sample(twin[1]), "instances")
        /\ Has(Sample(fr[1]), "instances") =>
               Sample(fr[1])["instances"] = Sample(twin[1])["instances"]
        /\ Has(Sample(fr[1]), "instances") <=> Has(rec[1], "annotations")

\* C7 witness: both calls returned instances, one mapper labelling the
\* record's source 'image' (not_full_labeled true), the other 'box'.
C7_Witness ==
    /\ pc = "returned" /\ twin # <<>> /\ twin[1].returned
    /\ fr[1].not_full_labeled /\ ~twin[1].not_full_labeled
    /\ Sample(fr[1])["ann_type"] = "image"
    /\ Has(Sample(twin[1]), "ann_type") /\ Sample(twin[1])["ann_type"] = "box"
    /\ Has(Sample(fr[1]), "instances")
    /\ Len(Sample(fr[1])["instances"]["gt_boxes"]) = 2
    /\ Has(Sample(fr[1])["instances"], "gt_masks")

====
